---- MODULE Spec2Model ----
(***************************************************************************)
(* Article_Finder: the record normalizer of src/src/fetch_wos_data.py and  *)
(* the keyword / PI filter of src/src/filter_wos_records_category.py (and  *)
(* its notebook twin src/marimo/notebook.py).                              *)
(*                                                                         *)
(* A Python str is a sequence of one-character strings, so that matching,  *)
(* lower-casing, stripping and joining are computed character by           *)
(* character.                                                              *)
(***************************************************************************)
EXTENDS Integers, Sequences, FiniteSets, TLC

\* ------------------------------------------------------------------------
\* Characters and str methods
\* ------------------------------------------------------------------------

UpperLetters ==
  <<"A","B","C","D","E","F","G","H","I","J","K","L","M",
    "N","O","P","Q","R","S","T","U","V","W","X","Y","Z">>

LowerLetters ==
  <<"a","b","c","d","e","f","g","h","i","j","k","l","m",
    "n","o","p","q","r","s","t","u","v","w","x","y","z">>

DigitChars == {"0","1","2","3","4","5","6","7","8","9"}

Range(s) == {s[i] : i \in DOMAIN s}

\* str.lower() on one character
lower_char(c) ==
  IF c \in Range(UpperLetters)
    THEN LowerLetters[CHOOSE i \in DOMAIN UpperLetters : UpperLetters[i] = c]
    ELSE c

\* str.lower()
lower(s) == [i \in DOMAIN s |-> lower_char(s[i])]

\* the regex class \w
IsWordChar(c) ==
  c \in Range(UpperLetters) \cup Range(LowerLetters) \cup DigitChars \cup {"_"}

\* the regex class \s, and the characters str.strip() removes
IsSpace(c) == c \in {" ", "\t", "\n"}

\* str.strip()
strip(s) ==
  LET keep == {i \in DOMAIN s : ~IsSpace(s[i])} IN
  IF keep = {} THEN <<>>
  ELSE LET lo == CHOOSE i \in keep : \A j \in keep : i <= j
           hi == CHOOSE i \in keep : \A j \in keep : j <= i
       IN SubSeq(s, lo, hi)

RECURSIVE join(_, _)
\* sep.join(items)
join(sep, items) ==
  IF items = <<>> THEN <<>>
  ELSE IF Len(items) = 1 THEN items[1]
  ELSE items[1] \o sep \o join(sep, Tail(items))

RECURSIVE Concat(_)
Concat(items) == IF items = <<>> THEN <<>> ELSE Head(items) \o Concat(Tail(items))

\* ------------------------------------------------------------------------
\* Compiled patterns (re.compile) and their search / findall
\*
\* A compiled pattern is a record:
\*   never   TRUE for re.compile(r"a^")
\*   alts    the alternatives, in order; an alternative is a sequence of
\*           escaped literal parts joined by the separator class [\s\-]+
\*           (a plain term is an alternative of one part)
\*   ic      re.IGNORECASE
\*   word    each alternative sits between (?<!\w) and (?!\w)
\* ------------------------------------------------------------------------

NeverPattern == [never |-> TRUE, alts |-> <<>>, ic |-> FALSE, word |-> FALSE]

AltPattern(alts, ic, word) == [never |-> FALSE, alts |-> alts, ic |-> ic, word |-> word]

\* a literal (re.escape'd) string matches text at index i
LitAt(text, i, lit, ic) ==
  /\ i + Len(lit) - 1 <= Len(text)
  /\ \A k \in 1..Len(lit) :
       IF ic THEN lower_char(text[i + k - 1]) = lower_char(lit[k])
             ELSE text[i + k - 1] = lit[k]

\* (?<!\w) at index i, (?!\w) at index j (the index after the match)
NoWordBefore(text, i) == i = 1 \/ ~IsWordChar(text[i - 1])
NoWordAfter(text, j) == j > Len(text) \/ ~IsWordChar(text[j])

\* the separator class [\s\-]
IsSep(c) == IsSpace(c) \/ c = "-"

\* length of the run of separator characters starting at index j
SepRun(text, j) ==
  LET ks == {k \in 0..(Len(text) - j + 1) :
               \A m \in j..(j + k - 1) : IsSep(text[m])}
  IN CHOOSE k \in ks : \A k2 \in ks : k2 <= k

RECURSIVE MatchParts(_, _, _, _, _)
\* The index after the match of part1 [\s\-]+ part2 ... (?!\w) begun at i,
\* or 0 when there is none.  [\s\-]+ is greedy and backtracks.
MatchParts(text, i, parts, ic, word) ==
  IF ~LitAt(text, i, Head(parts), ic) THEN 0
  ELSE LET j == i + Len(Head(parts)) IN
    IF Len(parts) = 1
      THEN IF word /\ ~NoWordAfter(text, j) THEN 0 ELSE j
      ELSE LET ok == {k \in 1..SepRun(text, j) :
                        MatchParts(text, j + k, Tail(parts), ic, word) # 0}
           IN IF ok = {} THEN 0
              ELSE MatchParts(text, j + (CHOOSE k \in ok : \A k2 \in ok : k2 <= k),
                              Tail(parts), ic, word)

\* the index after the match of one alternative begun at i, or 0
MatchAlt(text, i, alt, ic, word) ==
  IF word /\ ~NoWordBefore(text, i) THEN 0
  ELSE MatchParts(text, i, alt, ic, word)

\* r"a^": an "a" followed by the start of the string
MatchNever(text, i) ==
  IF i <= Len(text) /\ text[i] = "a" /\ i + 1 = 1 THEN i + 1 ELSE 0

\* the index after the match of the pattern begun at i (first alternative
\* that matches wins), or 0
MatchAt(pat, text, i) ==
  IF pat.never THEN MatchNever(text, i)
  ELSE LET ok == {a \in DOMAIN pat.alts :
                    MatchAlt(text, i, pat.alts[a], pat.ic, pat.word) # 0}
       IN IF ok = {} THEN 0
          ELSE MatchAlt(text, i, pat.alts[CHOOSE a \in ok : \A b \in ok : a <= b],
                        pat.ic, pat.word)

NoMatch == [s |-> 0, e |-> 0]

\* pattern.search(text) from index pos on: the leftmost match, as the
\* index of its first character and the index after its last, or NoMatch
SearchFrom(pat, text, pos) ==
  LET starts == {i \in pos..(Len(text) + 1) : MatchAt(pat, text, i) # 0} IN
  IF starts = {} THEN NoMatch
  ELSE LET i == CHOOSE i \in starts : \A j \in starts : i <= j
       IN [s |-> i, e |-> MatchAt(pat, text, i)]

search(pat, text) == SearchFrom(pat, text, 1)

\* bool(pattern.search(text)), Series.str.contains(pattern)
contains(pat, text) == search(pat, text) # NoMatch

\* m.group(0)
group0(text, m) == SubSeq(text, m.s, m.e - 1)

RECURSIVE FindAllFrom(_, _, _)
\* pattern.findall(text) for a pattern without groups: the non-overlapping
\* matches, left to right
FindAllFrom(pat, text, pos) ==
  LET m == SearchFrom(pat, text, pos) IN
  IF m = NoMatch THEN <<>>
  ELSE <<group0(text, m)>> \o
       FindAllFrom(pat, text, IF m.e = m.s THEN m.e + 1 ELSE m.e)

findall(pat, text) == FindAllFrom(pat, text, 1)

\* ------------------------------------------------------------------------
\* State
\* ------------------------------------------------------------------------

VARIABLES
  pc,                         \* position in the filter script / notebook
  variant,                    \* "script": src/src/filter_wos_records_category.py
                              \* "notebook": src/marimo/notebook.py
  kw,                         \* the parsed keyword.yml
  wos,                        \* one row of wos_results.csv, as <<[c, v], ...>>
  pi_file,                    \* Pi_list.csv
  include_terms, exclude_terms, exclude_terms_category,
  df,                         \* the row after the empty columns are dropped
  df_fulltext, df_category_text,
  df_include_match, df_exclude_match, df_exclude_category_match,
  df_matched_term, df_matched_sentence,
  pi_names, pi_lastnames,
  df_funding_search_text, df_pi_names_in_funding, df_pi_in_funding,
  Results, PI_Checked         \* the rows written to the two result files

filter_vars ==
  <<pc, variant, kw, wos, pi_file, include_terms, exclude_terms,
    exclude_terms_category, df, df_fulltext, df_category_text,
    df_include_match, df_exclude_match, df_exclude_category_match,
    df_matched_term, df_matched_sentence, pi_names, pi_lastnames,
    df_funding_search_text, df_pi_names_in_funding, df_pi_in_funding,
    Results, PI_Checked>>

VARIABLES
  fpc,                        \* position in fetch_wos_data.py
  rec,                        \* the raw record handed to make_summary_row
  summary_row                 \* what make_summary_row returned

VARIABLES
  data,                       \* the response envelope handed to extract_records_any
  recs,                       \* what extract_records_any returned
  tier                        \* "direct" or "walk": where the records came from

discover_vars == <<data, recs, tier>>

VARIABLES
  max_tries,                  \* get_with_retry's max_tries
  tries,                      \* its counter
  status_code,                \* resp.status_code of the last response
  wait_s,                     \* the last time.sleep
  responses                   \* the status codes received so far, in order

retry_vars == <<max_tries, tries, status_code, wait_s, responses>>

VARIABLES
  heap,                       \* the objects extract_text is given: id -> object
  stack,                      \* the extract_text calls in progress, innermost last
  ret                         \* the value the last finished call returned

extract_vars == <<heap, stack, ret>>

fetch_vars == <<fpc, rec, summary_row, discover_vars, retry_vars, extract_vars>>

vars == <<filter_vars, fetch_vars>>

\* ------------------------------------------------------------------------
\* 1) keyword.yml and the term patterns
\* ------------------------------------------------------------------------

\* kw.get(key, [])
kw_get(key) == IF key \in DOMAIN kw THEN kw[key] ELSE <<>>

score == <<"s","c","o","r","e">>
SCoRe == <<"S","C","o","R","e">>

\* the alternatives "|".join(map(re.escape, terms))
Literals(terms) == [i \in DOMAIN terms |-> <<terms[i]>>]

EXCLUDE_CATEGORY_REGEX ==
  IF exclude_terms_category # <<>>
    THEN AltPattern(Literals(exclude_terms_category), TRUE, FALSE)
    ELSE NeverPattern

normal_terms ==
  SelectSeq(include_terms, LAMBDA t : lower(t) # score /\ t # SCoRe)

NORMAL_INCLUDE_REGEX ==
  IF normal_terms # <<>>
    THEN AltPattern(Literals(normal_terms), TRUE, TRUE)
    ELSE NeverPattern

\* SCORE_REGEX compiled with re.IGNORECASE
SCORE_REGEX_ignorecase == AltPattern(<< <<SCoRe>> >>, TRUE, TRUE)

\* the script compiles the SCoRe pattern whatever include_terms holds; the
\* notebook compiles it only when "SCoRe" is an include term
SCORE_REGEX ==
  IF variant = "script"
    THEN AltPattern(<< <<SCoRe>> >>, FALSE, TRUE)
    ELSE IF SCoRe \in Range(include_terms)
           THEN AltPattern(<< <<SCoRe>> >>, FALSE, TRUE)
           ELSE NeverPattern

\* EXCLUDE_REGEX compiled between word boundaries, like the include pattern
EXCLUDE_REGEX_whole_word ==
  IF exclude_terms # <<>>
    THEN AltPattern(Literals(exclude_terms), TRUE, TRUE)
    ELSE NeverPattern

EXCLUDE_REGEX ==
  IF exclude_terms # <<>>
    THEN AltPattern(Literals(exclude_terms), TRUE, FALSE)
    ELSE NeverPattern

include_match(text) ==
  contains(SCORE_REGEX, text) \/ contains(NORMAL_INCLUDE_REGEX, text)

extract_include_phrase(text) ==
  LET m == search(SCORE_REGEX, text) IN
  IF m # NoMatch THEN group0(text, m)
  ELSE LET m2 == search(NORMAL_INCLUDE_REGEX, text) IN
       IF m2 # NoMatch THEN group0(text, m2) ELSE <<>>

IsSentenceEnd(c) == c \in {".", "!", "?"}

RECURSIVE SplitSentences(_, _)
\* re.split(r'(?<=[.!?])\s+', text), from index pos on
SplitSentences(text, pos) ==
  LET cuts == {i \in (IF pos < 2 THEN 2 ELSE pos)..Len(text) :
                 IsSentenceEnd(text[i - 1]) /\ IsSpace(text[i])}
  IN IF cuts = {} THEN <<SubSeq(text, pos, Len(text))>>
     ELSE LET i == CHOOSE i \in cuts : \A j \in cuts : i <= j
              ks == {k \in 1..(Len(text) - i + 1) :
                       \A m \in i..(i + k - 1) : IsSpace(text[m])}
              k == CHOOSE k \in ks : \A k2 \in ks : k2 <= k
          IN <<SubSeq(text, pos, i - 1)>> \o SplitSentences(text, i + k)

extract_include_sentence(text) ==
  LET sentences == SplitSentences(text, 1)
      hit == {i \in DOMAIN sentences : include_match(sentences[i])}
  IN IF hit = {} THEN <<>>
     ELSE strip(sentences[CHOOSE i \in hit : \A j \in hit : i <= j])

\* filter_wos_records_category.py's dedupe_keep_order (the notebook's is the same)
RECURSIVE dedupe_fold(_, _, _)
dedupe_fold(items, seen, out) ==
  IF items = <<>> THEN out
  ELSE LET x == strip(Head(items))
           k == lower(x)
       IN IF x = <<>> \/ k \in seen
            THEN dedupe_fold(Tail(items), seen, out)
            ELSE dedupe_fold(Tail(items), seen \cup {k}, Append(out, x))

dedupe_keep_order(items) == dedupe_fold(items, {}, <<>>)

LoadKeywords ==
  /\ pc = "load_yaml"
  /\ UNCHANGED fetch_vars
  /\ include_terms' = kw_get("include_terms")
  /\ exclude_terms' = kw_get("exclude_terms")
  /\ exclude_terms_category' = kw_get("exclude_terms_category")
  /\ pc' = "load_wos"
  /\ UNCHANGED <<variant, kw, wos, pi_file, df, df_fulltext, df_category_text,
                 df_include_match, df_exclude_match, df_exclude_category_match,
                 df_matched_term, df_matched_sentence, pi_names, pi_lastnames,
                 df_funding_search_text, df_pi_names_in_funding,
                 df_pi_in_funding, Results, PI_Checked>>

\* ------------------------------------------------------------------------
\* 2) wos_results.csv, 3) the searchable texts and the match columns
\* ------------------------------------------------------------------------

\* df.columns and df[c] of the one row
columns(d) == [i \in DOMAIN d |-> d[i].c]
cell(d, c) == d[CHOOSE i \in DOMAIN d : d[i].c = c].v

\* re.search(r"categor", c, re.IGNORECASE)
CATEGORY_COL_REGEX ==
  AltPattern(<< << <<"c","a","t","e","g","o","r">> >> >>, TRUE, FALSE)

\* re.search(r"title|abstract|fund|keyword|ack", c, re.IGNORECASE)
TEXT_COL_REGEX ==
  AltPattern(<< << <<"t","i","t","l","e">> >>,
                << <<"a","b","s","t","r","a","c","t">> >>,
                << <<"f","u","n","d">> >>,
                << <<"k","e","y","w","o","r","d">> >>,
                << <<"a","c","k">> >> >>, TRUE, FALSE)

category_cols(d) ==
  SelectSeq(columns(d), LAMBDA c : contains(CATEGORY_COL_REGEX, c))

\* text_cols without the "and c not in category_cols" condition
text_cols_unfiltered(d) ==
  SelectSeq(columns(d), LAMBDA c : contains(TEXT_COL_REGEX, c))

text_cols(d) ==
  SelectSeq(columns(d), LAMBDA c : /\ contains(TEXT_COL_REGEX, c)
                                   /\ c \notin Range(category_cols(d)))

\* df[cols].fillna("").astype(str).agg(" ".join, axis=1)
agg_join(d, cols) == join(<<" ">>, [i \in DOMAIN cols |-> cell(d, cols[i])])

\* the indexes of the columns of the row whose cell is empty
EmptyCols(w) == {i \in DOMAIN w : w[i].v = <<>>}

RECURSIVE DropCols(_, _)
DropCols(w, drop) ==
  IF w = <<>> THEN <<>>
  ELSE LET rest == DropCols(SubSeq(w, 1, Len(w) - 1), drop) IN
       IF Len(w) \in drop THEN rest ELSE Append(rest, w[Len(w)])

\* read_csv, dropna(axis=1, how="all") and the (df != "").any filter.  A
\* column that is empty in this row is dropped when it is empty in every
\* other row of the table as well, and kept otherwise.  The table keeps at
\* least one text column.
LoadWoS ==
  /\ pc = "load_wos"
  /\ UNCHANGED fetch_vars
  /\ \E drop \in SUBSET EmptyCols(wos) :
       /\ text_cols(DropCols(wos, drop)) # <<>>
       /\ df' = DropCols(wos, drop)
  /\ pc' = "build_text"
  /\ UNCHANGED <<variant, kw, wos, pi_file, include_terms, exclude_terms,
                 exclude_terms_category, df_fulltext, df_category_text,
                 df_include_match, df_exclude_match, df_exclude_category_match,
                 df_matched_term, df_matched_sentence, pi_names, pi_lastnames,
                 df_funding_search_text, df_pi_names_in_funding,
                 df_pi_in_funding, Results, PI_Checked>>

BuildText ==
  /\ pc = "build_text"
  /\ UNCHANGED fetch_vars
  /\ df_fulltext' = agg_join(df, text_cols(df))
  /\ df_category_text' =
       IF category_cols(df) # <<>> THEN agg_join(df, category_cols(df)) ELSE <<>>
  /\ pc' = "classify"
  /\ UNCHANGED <<variant, kw, wos, pi_file, include_terms, exclude_terms,
                 exclude_terms_category, df,
                 df_include_match, df_exclude_match, df_exclude_category_match,
                 df_matched_term, df_matched_sentence, pi_names, pi_lastnames,
                 df_funding_search_text, df_pi_names_in_funding,
                 df_pi_in_funding, Results, PI_Checked>>

\* df["exclude_match"] and df["exclude_category_match"]
exclude_match(text) == contains(EXCLUDE_REGEX, text)
exclude_category_match(text) == contains(EXCLUDE_CATEGORY_REGEX, text)

\* the row is in `filtered`
Kept(inc, exc, exc_cat) == inc /\ ~exc /\ ~exc_cat

\* The notebook writes filtered_results.csv in the same cell.
Classify ==
  /\ pc = "classify"
  /\ UNCHANGED fetch_vars
  /\ df_include_match' = include_match(df_fulltext)
  /\ df_exclude_match' = exclude_match(df_fulltext)
  /\ df_exclude_category_match' = exclude_category_match(df_category_text)
  /\ df_matched_term' =
       IF include_match(df_fulltext) THEN extract_include_phrase(df_fulltext)
       ELSE <<>>
  /\ df_matched_sentence' =
       IF include_match(df_fulltext) THEN extract_include_sentence(df_fulltext)
       ELSE <<>>
  /\ Results' =
       IF variant = "notebook"
            /\ Kept(include_match(df_fulltext), exclude_match(df_fulltext),
                    exclude_category_match(df_category_text))
         THEN <<df>> ELSE <<>>
  /\ pc' = "load_pi"
  /\ UNCHANGED <<variant, kw, wos, pi_file, include_terms, exclude_terms,
                 exclude_terms_category, df, df_fulltext, df_category_text,
                 pi_names, pi_lastnames,
                 df_funding_search_text, df_pi_names_in_funding,
                 df_pi_in_funding, PI_Checked>>

\* ------------------------------------------------------------------------
\* 4) Pi_list.csv, 5) the name patterns, 6) the funding attribution
\* ------------------------------------------------------------------------

\* the orders sorted(set(items), key=len, reverse=True) can give: longest
\* first, items of one length in the set's iteration order, which is
\* arbitrary
SortedByLenDesc(S) ==
  {p \in [1..Cardinality(S) -> S] :
     /\ \A i, j \in DOMAIN p : i # j => p[i] # p[j]
     /\ \A i, j \in DOMAIN p : i < j => Len(p[i]) >= Len(p[j])}

\* the Name cells, stripped, without the empty (NaN) ones
CleanNames(cells) ==
  {strip(cells[i]) : i \in DOMAIN cells} \ {<<>>}

RECURSIVE split_ws(_)
\* re.split(r"\s+", s) of a stripped string
split_ws(s) ==
  LET sp == {i \in DOMAIN s : IsSpace(s[i])} IN
  IF sp = {} THEN <<s>>
  ELSE LET i == CHOOSE i \in sp : \A j \in sp : i <= j
           rest == SubSeq(s, i, Len(s))
           ns == {k \in DOMAIN rest : ~IsSpace(rest[k])}
           k == IF ns = {} THEN Len(rest) + 1
                ELSE CHOOSE k \in ns : \A k2 \in ns : k <= k2
       IN <<SubSeq(s, 1, i - 1)>> \o split_ws(SubSeq(rest, k, Len(rest)))

get_lastname(name) ==
  LET parts == split_ws(strip(name)) IN parts[Len(parts)]

\* the name as one literal, its parts a single space apart
name_to_pattern_literal(name) == <<join(<<" ">>, split_ws(strip(name)))>>

\* the alternative of PI_REGEX for one name
name_to_pattern(name) == split_ws(strip(name))

\* LASTNAME_REGEX compiled without re.IGNORECASE
LASTNAME_REGEX_case_sensitive ==
  IF pi_lastnames # <<>>
    THEN AltPattern(Literals(pi_lastnames), FALSE, TRUE)
    ELSE NeverPattern

LASTNAME_REGEX ==
  IF pi_lastnames # <<>>
    THEN AltPattern(Literals(pi_lastnames), TRUE, TRUE)
    ELSE NeverPattern

PI_REGEX ==
  IF pi_names # <<>>
    THEN AltPattern([i \in DOMAIN pi_names |-> name_to_pattern(pi_names[i])],
                    TRUE, TRUE)
    ELSE NeverPattern

find_pi_names_full(text) ==
  IF strip(text) = <<>> THEN <<>>
  ELSE LET hits == findall(PI_REGEX, text) IN
       join(<<";", " ">>,
            dedupe_keep_order([i \in DOMAIN hits |-> strip(hits[i])]))

\* The script stops on a missing file or a missing "Name" column; the
\* notebook skips the PI check when the file is missing.
LoadPI ==
  /\ pc = "load_pi"
  /\ UNCHANGED fetch_vars
  /\ IF ~pi_file.exists
       THEN /\ pc' = IF variant = "notebook" THEN "done" ELSE "error"
            /\ UNCHANGED pi_names
       ELSE IF ~pi_file.has_name
         THEN pc' = "error" /\ UNCHANGED pi_names
         ELSE /\ pi_names' \in SortedByLenDesc(CleanNames(pi_file.names))
              /\ pc' = "pi_regex"
  /\ UNCHANGED <<variant, kw, wos, pi_file, include_terms, exclude_terms,
                 exclude_terms_category, df, df_fulltext, df_category_text,
                 df_include_match, df_exclude_match, df_exclude_category_match,
                 df_matched_term, df_matched_sentence, pi_lastnames,
                 df_funding_search_text, df_pi_names_in_funding,
                 df_pi_in_funding, Results, PI_Checked>>

BuildPIRegex ==
  /\ pc = "pi_regex"
  /\ UNCHANGED fetch_vars
  /\ pi_lastnames' \in
       SortedByLenDesc({get_lastname(pi_names[i]) : i \in DOMAIN pi_names} \ {<<>>})
  /\ pc' = "attribute"
  /\ UNCHANGED <<variant, kw, wos, pi_file, include_terms, exclude_terms,
                 exclude_terms_category, df, df_fulltext, df_category_text,
                 df_include_match, df_exclude_match, df_exclude_category_match,
                 df_matched_term, df_matched_sentence, pi_names,
                 df_funding_search_text, df_pi_names_in_funding,
                 df_pi_in_funding, Results, PI_Checked>>

FundingText == <<"F","u","n","d","i","n","g","T","e","x","t">>
FundingAgencies == <<"F","u","n","d","i","n","g","A","g","e","n","c","i","e","s">>
GrantNumbers == <<"G","r","a","n","t","N","u","m","b","e","r","s">>

fund_cols_candidates == <<FundingText, FundingAgencies, GrantNumbers>>

fund_cols(d) == SelectSeq(fund_cols_candidates, LAMBDA c : c \in Range(columns(d)))

funding_search_text(d) ==
  IF fund_cols(d) # <<>> THEN agg_join(d, fund_cols(d)) ELSE <<>>

\* cand_fund: the row passes the last-name filter
cand_fund(text) == contains(LASTNAME_REGEX, text)

pi_names_in_funding(text) ==
  IF cand_fund(text) THEN find_pi_names_full(text) ELSE <<>>

\* the row is in df_exclude, the table the notebook's PI cell works on
InDfExclude == ~df_exclude_match /\ ~df_exclude_category_match

\* The notebook attributes only the rows of df_exclude and writes
\* pi_names_checked.csv in the same cell.
Attribute ==
  /\ pc = "attribute"
  /\ UNCHANGED fetch_vars
  /\ IF variant = "notebook" /\ ~InDfExclude
       THEN /\ UNCHANGED <<df_funding_search_text, df_pi_names_in_funding,
                           df_pi_in_funding>>
            /\ PI_Checked' = <<>>
            /\ pc' = "done"
       ELSE /\ df_funding_search_text' = funding_search_text(df)
            /\ df_pi_names_in_funding' = pi_names_in_funding(funding_search_text(df))
            /\ df_pi_in_funding' = (Len(pi_names_in_funding(funding_search_text(df))) > 0)
            /\ IF variant = "notebook"
                 THEN /\ PI_Checked' =
                           IF Len(pi_names_in_funding(funding_search_text(df))) > 0
                             THEN <<df>> ELSE <<>>
                      /\ pc' = "done"
                 ELSE /\ UNCHANGED PI_Checked
                      /\ pc' = "save"
  /\ UNCHANGED <<variant, kw, wos, pi_file, include_terms, exclude_terms,
                 exclude_terms_category, df, df_fulltext, df_category_text,
                 df_include_match, df_exclude_match, df_exclude_category_match,
                 df_matched_term, df_matched_sentence, pi_names, pi_lastnames,
                 Results>>

\* 8) the script writes both result files at the end
Save ==
  /\ pc = "save"
  /\ UNCHANGED fetch_vars
  /\ Results' =
       IF Kept(df_include_match, df_exclude_match, df_exclude_category_match)
         THEN <<df>> ELSE <<>>
  /\ PI_Checked' = IF df_pi_in_funding THEN <<df>> ELSE <<>>
  /\ pc' = "done"
  /\ UNCHANGED <<variant, kw, wos, pi_file, include_terms, exclude_terms,
                 exclude_terms_category, df, df_fulltext, df_category_text,
                 df_include_match, df_exclude_match, df_exclude_category_match,
                 df_matched_term, df_matched_sentence, pi_names, pi_lastnames,
                 df_funding_search_text, df_pi_names_in_funding,
                 df_pi_in_funding>>

FilterNext ==
  \/ LoadKeywords
  \/ LoadWoS
  \/ BuildText
  \/ Classify
  \/ LoadPI
  \/ BuildPIRegex
  \/ Attribute
  \/ Save

\* ------------------------------------------------------------------------
\* Inputs
\* ------------------------------------------------------------------------

MaxChunks == 3
MaxNames == 2

RECURSIVE ChunkTexts(_, _)
\* the texts made of at most n chunks
ChunkTexts(chunks, n) ==
  IF n = 0 THEN {<<>>}
  ELSE LET shorter == ChunkTexts(chunks, n - 1)
       IN shorter \cup {t \o c : t \in shorter, c \in chunks}

board == <<"b","o","a","r","d">>
Board == <<"B","o","a","r","d">>
term_or == <<"o","r">>
term_oar == <<"O","A","R">>
term_xyz == <<"x","y","z">>

TermChunks == {SCoRe, score, board, <<" ">>, <<".", " ">>}

Title == <<"T","i","t","l","e">>
Abstract == <<"A","b","s","t","r","a","c","t">>
Journal == <<"J","o","u","r","n","a","l">>
AuthorKeywords == <<"A","u","t","h","o","r","K","e","y","w","o","r","d","s">>
WoSCategoriesTraditional ==
  <<"W","o","S","C","a","t","e","g","o","r","i","e","s",
    "T","r","a","d","i","t","i","o","n","a","l">>
KeywordCategories ==
  <<"K","e","y","w","o","r","d","C","a","t","e","g","o","r","i","e","s">>

\* keyword.yml files: a key may be absent
Yaml(inc, exc, cat) ==
  ("include_terms" :> inc) @@ ("exclude_terms" :> exc)
    @@ ("exclude_terms_category" :> cat)

TermConfigs ==
  { <<>> @@ ("exclude_terms" :> <<>>),
    Yaml(<<>>, <<>>, <<>>),
    Yaml(<<SCoRe>>, <<>>, <<>>),
    Yaml(<<score>>, <<>>, <<>>),
    Yaml(<<board>>, <<>>, <<>>),
    Yaml(<<Board, SCoRe>>, <<>>, <<>>),
    Yaml(<<score, board>>, <<>>, <<>>),
    Yaml(<<>>, <<term_or>>, <<>>),
    Yaml(<<>>, <<term_xyz, term_oar>>, <<>>),
    Yaml(<<>>, <<term_xyz>>, <<term_or>>) }

NoPIFile == [exists |-> FALSE, has_name |-> FALSE, names |-> <<>>]

\* what the filter has not computed yet
FilterBlank ==
  /\ pc = "load_yaml"
  /\ include_terms = <<>>
  /\ exclude_terms = <<>>
  /\ exclude_terms_category = <<>>
  /\ df = <<>>
  /\ df_fulltext = <<>>
  /\ df_category_text = <<>>
  /\ df_include_match = FALSE
  /\ df_exclude_match = FALSE
  /\ df_exclude_category_match = FALSE
  /\ df_matched_term = <<>>
  /\ df_matched_sentence = <<>>
  /\ pi_names = <<>>
  /\ pi_lastnames = <<>>
  /\ df_funding_search_text = <<>>
  /\ df_pi_names_in_funding = <<>>
  /\ df_pi_in_funding = FALSE
  /\ Results = <<>>
  /\ PI_Checked = <<>>

\* fetch_wos_data.py is not running
\* extract_records_any, get_with_retry and extract_text are not running
DiscoverIdle ==
  /\ data = [t |-> "null"]
  /\ recs = [t |-> "null"]
  /\ tier = "none"

RetryIdle ==
  /\ max_tries = 0
  /\ tries = 0
  /\ status_code = 0
  /\ wait_s = 0
  /\ responses = <<>>

ExtractIdle ==
  /\ heap = <<>>
  /\ stack = <<>>
  /\ ret = [t |-> "none"]

FetchIdle ==
  /\ fpc = "idle"
  /\ rec = [t |-> "null"]
  /\ summary_row = [t |-> "null"]
  /\ DiscoverIdle
  /\ RetryIdle
  /\ ExtractIdle

\* term matching: any term configuration, any title text
TermInit ==
  /\ variant \in {"script", "notebook"}
  /\ kw \in TermConfigs
  /\ \E t \in ChunkTexts(TermChunks, MaxChunks) :
       wos = << [c |-> Title, v |-> t],
                [c |-> WoSCategoriesTraditional, v |-> SCoRe \o <<" ">> \o board] >>
  /\ pi_file = NoPIFile
  /\ FilterBlank
  /\ FetchIdle

TermNext == LoadKeywords \/ LoadWoS \/ BuildText \/ Classify

TermSpec == TermInit /\ [][TermNext]_vars

\* ------------------------------------------------------------------------
\* Term matching (TermSpec)
\* ------------------------------------------------------------------------

\* the match columns of the row have been computed
Classified == pc = "load_pi"

\* term t stands in text at index i as a word of its own, in any casing
\* when ic, in its own casing otherwise
WordAt(t, text, i, ic) ==
  /\ i + Len(t) - 1 <= Len(text)
  /\ (IF ic THEN lower(SubSeq(text, i, i + Len(t) - 1)) = lower(t)
            ELSE SubSeq(text, i, i + Len(t) - 1) = t)
  /\ (i = 1 \/ ~IsWordChar(text[i - 1]))
  /\ (i + Len(t) > Len(text) \/ ~IsWordChar(text[i + Len(t)]))

OccursAsWord(t, text, ic) == \E i \in 1..Len(text) : WordAt(t, text, i, ic)

\* term t occurs somewhere in text, in any casing
OccursCI(t, text) ==
  \E i \in 1..(Len(text) + 1) :
    /\ i + Len(t) - 1 <= Len(text)
    /\ lower(SubSeq(text, i, i + Len(t) - 1)) = lower(t)

\* C1: with include_terms, exclude_terms and exclude_terms_category all
\* empty or absent, include_match, exclude_match and exclude_category_match
\* are false for every row.
C1_NeverMatches ==
  (Classified /\ include_terms = <<>> /\ exclude_terms = <<>>
     /\ exclude_terms_category = <<>>)
  => (~df_include_match /\ ~df_exclude_match /\ ~df_exclude_category_match)

\* C2: every include term that stands in fulltext as a word of its own
\* sets include_match; when include terms occur only inside longer words
\* and none stands as a word of its own, include_match is false.
C2_BoundaryLaw ==
  Classified =>
    /\ \A k \in DOMAIN include_terms :
         OccursAsWord(include_terms[k], df_fulltext, FALSE) => df_include_match
    /\ ( (/\ \E k \in DOMAIN include_terms : OccursCI(include_terms[k], df_fulltext)
          /\ \A k \in DOMAIN include_terms :
               ~OccursAsWord(include_terms[k], df_fulltext, TRUE))
         => ~df_include_match )

\* C3: with include_terms = ["SCoRe"], include_match is true exactly when
\* fulltext holds the word "SCoRe" in that casing, and matched_term is then
\* "SCoRe"; the letters in another casing ("score") do not match.
C3_AmbiguousTermCaseSensitive ==
  (Classified /\ include_terms = <<SCoRe>>) =>
    /\ df_include_match <=> OccursAsWord(SCoRe, df_fulltext, FALSE)
    /\ df_include_match => df_matched_term = SCoRe
    /\ ~df_include_match => df_matched_term = <<>>

\* C3 witness: a row with both "score" and "SCoRe" as words, matched on "SCoRe"
C3_Witness ==
  /\ Classified
  /\ include_terms = <<SCoRe>>
  /\ OccursAsWord(score, df_fulltext, FALSE)
  /\ df_include_match
  /\ df_matched_term = SCoRe

\* C3 witness of the negative case: only "score" stands in the text
C3_WitnessOtherCasing ==
  /\ Classified
  /\ include_terms = <<SCoRe>>
  /\ OccursAsWord(score, df_fulltext, FALSE)
  /\ ~df_include_match

\* C8: exclude_match is true exactly when some exclude term occurs in
\* fulltext as a substring, in any casing, also inside a longer word.
C8_ExcludeSubstringAnyCase ==
  Classified =>
    (df_exclude_match <=>
       \E k \in DOMAIN exclude_terms : OccursCI(exclude_terms[k], df_fulltext))

\* C8 witness: the exclude term "or" is met only as "oR" inside "SCoRe"
C8_Witness ==
  /\ Classified
  /\ exclude_terms = <<term_or>>
  /\ df_exclude_match
  /\ ~OccursAsWord(term_or, df_fulltext, TRUE)
  /\ \A i \in 1..Len(df_fulltext) :
       ~(i + 1 <= Len(df_fulltext) /\ SubSeq(df_fulltext, i, i + 1) = term_or)

\* string h stands somewhere in text, as spelled
Within(h, text) ==
  \E i \in 1..(Len(text) + 1) :
    i + Len(h) - 1 <= Len(text) /\ SubSeq(text, i, i + Len(h) - 1) = h

\* the sentences of text, without the whitespace around them
SentencesOf(text) == {strip(x) : x \in Range(SplitSentences(text, 1))}

\* C15: matched_term and matched_sentence are non-empty exactly when
\* include_match is true, and matched_sentence is then a sentence of
\* fulltext that contains matched_term.
C15_MatchFieldsConsistent ==
  Classified =>
    /\ (df_matched_term # <<>>) <=> df_include_match
    /\ (df_matched_sentence # <<>>) <=> df_include_match
    /\ df_include_match =>
         /\ df_matched_sentence \in SentencesOf(df_fulltext)
         /\ Within(df_matched_term, df_matched_sentence)

\* ------------------------------------------------------------------------
\* The two exclusion lists (ColumnSpec)
\* ------------------------------------------------------------------------

ExcludeConfigs ==
  { Yaml(<<>>, <<term_or>>, <<>>),
    Yaml(<<>>, <<term_oar>>, <<>>),
    Yaml(<<>>, <<>>, <<term_or>>),
    Yaml(<<>>, <<>>, <<term_oar>>),
    Yaml(<<>>, <<term_or>>, <<term_oar>>),
    Yaml(<<board>>, <<>>, <<>>) }

\* cells: empty, one holding "or" and one holding "oar"
ColumnCells == {<<>>, score, Board}

\* rows with text columns, category columns, a column whose name matches
\* both column patterns and one that matches neither
ColumnInit ==
  /\ variant \in {"script", "notebook"}
  /\ kw \in ExcludeConfigs
  /\ \E a, b, c, d \in ColumnCells :
       wos = << [c |-> Title, v |-> a],
                [c |-> WoSCategoriesTraditional, v |-> b],
                [c |-> KeywordCategories, v |-> c],
                [c |-> Journal, v |-> d] >>
  /\ pi_file = NoPIFile
  /\ FilterBlank
  /\ FetchIdle

ColumnSpec == ColumnInit /\ [][TermNext]_vars

\* the column name holds "categor", in any casing
IsCategoryName(c) == OccursCI(<<"c","a","t","e","g","o","r">>, c)

\* the term occurs in the cell of a column of the row whose name is, or is
\* not, a category name
OccursInColumns(t, d, category) ==
  \E i \in DOMAIN d : IsCategoryName(d[i].c) = category /\ OccursCI(t, d[i].v)

Li == <<"L","i">>
WEI == <<"W","E","I">>
L_dot == <<"L",".">>

\* Name cells of Pi_list.csv
Name_Li_Wei == <<"L","i"," ","W","e","i">>
Name_Wei_Li == <<"W","e","i"," ","L","i">>
Name_Li_Wei_padded == <<" ","L","i"," "," ","W","e","i"," ">>
Name_Wei == <<"W","e","i">>

NameCells == {Name_Li_Wei, Name_Wei_Li, Name_Li_Wei_padded, Name_Wei}

RECURSIVE SetToSeq(_)
\* the elements of S, listed once each
SetToSeq(S) ==
  IF S = {} THEN <<>>
  ELSE LET x == CHOOSE x \in S : TRUE IN <<x>> \o SetToSeq(S \ {x})

\* Pi_list.csv files: a Name column with an empty cell and at most MaxNames
\* names, no file, and a file without the Name column
PIFiles ==
  { [exists |-> TRUE, has_name |-> TRUE, names |-> <<<<>>>> \o SetToSeq(S)] :
      S \in {T \in SUBSET NameCells : Cardinality(T) <= MaxNames} }
  \cup { NoPIFile, [exists |-> TRUE, has_name |-> FALSE, names |-> <<>>] }

FundTokens == {Li, WEI}
FundSeps == {<<" ">>, <<"-">>, <<" ", " ">>, <<>>}

\* funding texts: up to three name tokens, glued or set apart by spaces or
\* hyphens, and an initial before one or two tokens
FundTexts ==
  {<<>>} \cup FundTokens
    \cup {a \o s \o b : a \in FundTokens, s \in FundSeps, b \in FundTokens}
    \cup {a \o s \o b \o u \o c :
            a \in FundTokens, s \in FundSeps, b \in FundTokens,
            u \in FundSeps, c \in FundTokens}
    \cup {L_dot \o <<" ">> \o a : a \in FundTokens}
    \cup {L_dot \o <<" ">> \o a \o s \o b :
            a \in FundTokens, s \in {<<" ">>, <<"-">>}, b \in FundTokens}

PIInit ==
  /\ variant \in {"script", "notebook"}
  /\ kw = Yaml(<<>>, <<>>, <<>>)
  /\ \E t \in FundTexts :
       wos = << [c |-> Title, v |-> score], [c |-> FundingText, v |-> t] >>
  /\ pi_file \in PIFiles
  /\ FilterBlank
  /\ FetchIdle

PISpec == PIInit /\ [][FilterNext]_vars

\* the funding columns of the row have been computed
Attributed == pc \in {"save", "done"} /\ pi_file.exists /\ pi_file.has_name

RECURSIVE OccEnds(_, _, _)
\* the indexes after the occurrences, begun at index i, of the parts in
\* order, in any casing, with one or more spaces or hyphens between them
OccEnds(text, i, parts) ==
  IF ~(i + Len(Head(parts)) - 1 <= Len(text)
       /\ lower(SubSeq(text, i, i + Len(Head(parts)) - 1)) = lower(Head(parts)))
    THEN {}
  ELSE LET j == i + Len(Head(parts)) IN
       IF Len(parts) = 1 THEN {j}
       ELSE UNION { OccEnds(text, m, Tail(parts)) :
                      m \in {m \in (j + 1)..(Len(text) + 1) :
                               \A x \in j..(m - 1) : text[x] \in {" ", "\t", "\n", "-"}} }

\* the whitespace-delimited parts of a controlled name
NameParts(name) ==
  LET idx == {i \in DOMAIN name : name[i] \notin {" ", "\t", "\n"}
                                  /\ (i = 1 \/ name[i - 1] \in {" ", "\t", "\n"})}
      EndOf(i) == CHOOSE e \in i..Len(name) :
                    /\ \A x \in i..e : name[x] \notin {" ", "\t", "\n"}
                    /\ (e = Len(name) \/ name[e + 1] \in {" ", "\t", "\n"})
      q == SetToSeq(idx)
      sorted == CHOOSE p \in [1..Cardinality(idx) -> idx] :
                  \A a, b \in DOMAIN p : a < b => p[a] < p[b]
  IN [k \in DOMAIN sorted |-> SubSeq(name, sorted[k], EndOf(sorted[k]))]

\* the occurrences <<i, j>> of a controlled name in text, bounded by
\* non-word characters
Occurrences(name, text) ==
  LET parts == NameParts(name) IN
  UNION { { <<i, j>> : j \in {j \in OccEnds(text, i, parts) :
                                j > Len(text) \/ ~IsWordChar(text[j])} } :
            i \in {i \in 1..Len(text) : i = 1 \/ ~IsWordChar(text[i - 1])} }

AllOccurrences(text) ==
  UNION {Occurrences(pi_names[k], text) : k \in DOMAIN pi_names}

\* string h is an entry of the "; "-joined list, up to letter case
Listed(h, joined) ==
  \E p \in 1..Len(joined) :
    /\ p + Len(h) - 1 <= Len(joined)
    /\ lower(SubSeq(joined, p, p + Len(h) - 1)) = lower(h)
    /\ (p = 1 \/ (p > 2 /\ SubSeq(joined, p - 2, p - 1) = <<";", " ">>))
    /\ (p + Len(h) - 1 = Len(joined)
          \/ (p + Len(h) + 1 <= Len(joined)
                /\ SubSeq(joined, p + Len(h), p + Len(h) + 1) = <<";", " ">>))

\* C4: whenever the full-name pattern matches the funding text the
\* last-name filter matches it too, and pi_names_in_funding is what the
\* full-name pattern gives when it is run on the row without the filter.
C4_TwoStageEquivalent ==
  Attributed =>
    /\ contains(PI_REGEX, df_funding_search_text) => cand_fund(df_funding_search_text)
    /\ AllOccurrences(df_funding_search_text) # {} => cand_fund(df_funding_search_text)
    /\ df_pi_names_in_funding = find_pi_names_full(df_funding_search_text)

\* C4 witness: a row that passes the last-name filter and gets two names
C4_Witness ==
  /\ Attributed
  /\ Len(pi_names) = 2
  /\ cand_fund(df_funding_search_text)
  /\ \E p \in 1..Len(df_pi_names_in_funding) :
       df_pi_names_in_funding[p] = ";"

\* C10 as stated: every occurrence of a controlled name sets pi_in_funding
\* and is listed in pi_names_in_funding; a text without an occurrence of a
\* full controlled name (last name alone, initial and last name) gives
\* pi_in_funding = false.
C10_EveryOccurrenceListed ==
  Attributed =>
    LET occ == AllOccurrences(df_funding_search_text) IN
    /\ \A o \in occ :
         /\ df_pi_in_funding
         /\ Listed(SubSeq(df_funding_search_text, o[1], o[2] - 1),
                   df_pi_names_in_funding)
    /\ occ = {} => ~df_pi_in_funding

\* C10 amended: every occurrence sets pi_in_funding and is listed, up to
\* letter case, unless it overlaps an occurrence that begins no later and
\* is listed; a text without an occurrence gives pi_in_funding = false.
C10_OccurrenceListedUnlessOverlapped ==
  Attributed =>
    LET occ == AllOccurrences(df_funding_search_text) IN
    /\ \A o \in occ :
         /\ df_pi_in_funding
         /\ \/ Listed(SubSeq(df_funding_search_text, o[1], o[2] - 1),
                      df_pi_names_in_funding)
            \/ \E o2 \in occ :
                 /\ o2 # o
                 /\ o2[1] <= o[1]
                 /\ o[1] < o2[2]
                 /\ Listed(SubSeq(df_funding_search_text, o2[1], o2[2] - 1),
                           df_pi_names_in_funding)
    /\ occ = {} => ~df_pi_in_funding

\* C10 witness: "Li Wei" is met as "Li-WEI" and listed as met; the "WEI"
\* that follows alone adds nothing
C10_Witness ==
  /\ Attributed
  /\ pi_names = <<Name_Li_Wei>>
  /\ df_funding_search_text = Li \o <<"-">> \o WEI \o <<" ", " ">> \o WEI
  /\ df_pi_in_funding
  /\ df_pi_names_in_funding = Li \o <<"-">> \o WEI

\* ------------------------------------------------------------------------
\* fetch_wos_data.py: raw records
\*
\* A JSON value is a tagged record; a dict keeps its items in insertion
\* order as <<key, value>> pairs.  An exception that leaves a function is
\* the value Raise(...).
\* ------------------------------------------------------------------------

Null == [t |-> "null"]
Str(s) == [t |-> "str", s |-> s]
Num(n) == [t |-> "num", n |-> n]
List(xs) == [t |-> "list", items |-> xs]
Dict(kvs) == [t |-> "dict", kv |-> kvs]
Raise(e) == [t |-> "raise", exc |-> e]

\* a tuple a function returns
Tuple(vs) == [t |-> "tuple", v |-> vs]

EmptyDict == Dict(<<>>)
EmptyStr == Str(<<>>)

IsRaise(v) == v.t = "raise"

\* bool(v)
truthy(v) ==
  CASE v.t = "null" -> FALSE
    [] v.t = "str" -> v.s # <<>>
    [] v.t = "num" -> v.n # 0
    [] v.t = "list" -> v.items # <<>>
    [] v.t = "dict" -> v.kv # <<>>

\* k in d
has_key(d, k) == \E i \in DOMAIN d.kv : d.kv[i][1] = k

\* d.get(k, default); AttributeError when d is no dict
get(d, k, default) ==
  IF IsRaise(d) THEN d
  ELSE IF d.t # "dict" THEN Raise("AttributeError")
  ELSE IF has_key(d, k)
    THEN d.kv[CHOOSE i \in DOMAIN d.kv : d.kv[i][1] = k][2]
    ELSE default

\* x or y
or(x, y) == IF IsRaise(x) THEN x ELSE IF truthy(x) THEN x ELSE y

as_list(x) ==
  IF x.t = "null" THEN <<>>
  ELSE IF x.t = "list" THEN x.items ELSE <<x>>

NonEmpty(items) == SelectSeq(items, LAMBDA x : x # <<>>)

RECURSIVE extract_text(_)
extract_text(obj) ==
  CASE obj.t = "null" -> <<>>
    [] obj.t = "str" -> strip(obj.s)
    [] obj.t = "list" ->
         strip(join(<<" ">>,
                    NonEmpty([i \in DOMAIN obj.items |-> extract_text(obj.items[i])])))
    [] obj.t = "dict" ->
         IF has_key(obj, "p") THEN extract_text(get(obj, "p", Null))
         ELSE IF has_key(obj, "content") /\ get(obj, "content", Null).t = "str"
           THEN strip(get(obj, "content", Null).s)
         ELSE IF has_key(obj, "value") /\ get(obj, "value", Null).t = "str"
           THEN strip(get(obj, "value", Null).s)
         ELSE strip(join(<<" ">>,
                         NonEmpty([i \in DOMAIN obj.kv |-> extract_text(obj.kv[i][2])])))
    [] OTHER -> <<>>

\* fetch_wos_data.py's dedupe_keep_order
RECURSIVE fetch_dedupe_fold(_, _, _)
fetch_dedupe_fold(items, seen, out) ==
  IF items = <<>> THEN out
  ELSE LET x == strip(Head(items)) IN
       IF x = <<>> \/ x \in seen
         THEN fetch_dedupe_fold(Tail(items), seen, out)
         ELSE fetch_dedupe_fold(Tail(items), seen \cup {x}, Append(out, x))

fetch_dedupe_keep_order(items) == fetch_dedupe_fold(items, {}, <<>>)

\* the characters of the dict keys of the records
KeyChars ==
  ("abstract_text" :> <<"a","b","s","t","r","a","c","t","_","t","e","x","t">>)
  @@ ("static_data" :> <<"s","t","a","t","i","c","_","d","a","t","a">>)
  @@ ("summary" :> <<"s","u","m","m","a","r","y">>)
  @@ ("fullrecord_metadata" :> <<"f","u","l","l","r","e","c","o","r","d","_","m","e","t","a","d","a","t","a">>)
  @@ ("item" :> <<"i","t","e","m">>)
  @@ ("titles" :> <<"t","i","t","l","e","s">>)
  @@ ("title" :> <<"t","i","t","l","e">>)
  @@ ("type" :> <<"t","y","p","e">>)
  @@ ("content" :> <<"c","o","n","t","e","n","t">>)
  @@ ("value" :> <<"v","a","l","u","e">>)
  @@ ("names" :> <<"n","a","m","e","s">>)
  @@ ("name" :> <<"n","a","m","e">>)
  @@ ("full_name" :> <<"f","u","l","l","_","n","a","m","e">>)
  @@ ("email_addr" :> <<"e","m","a","i","l","_","a","d","d","r">>)
  @@ ("email" :> <<"e","m","a","i","l">>)
  @@ ("emailAddress" :> <<"e","m","a","i","l","A","d","d","r","e","s","s">>)
  @@ ("pub_info" :> <<"p","u","b","_","i","n","f","o">>)
  @@ ("pubyear" :> <<"p","u","b","y","e","a","r">>)
  @@ ("identifiers" :> <<"i","d","e","n","t","i","f","i","e","r","s">>)
  @@ ("identifier" :> <<"i","d","e","n","t","i","f","i","e","r">>)
  @@ ("@type" :> <<"@","t","y","p","e">>)
  @@ ("abstracts" :> <<"a","b","s","t","r","a","c","t","s">>)
  @@ ("abstract" :> <<"a","b","s","t","r","a","c","t">>)
  @@ ("fund_ack" :> <<"f","u","n","d","_","a","c","k">>)
  @@ ("fund_text" :> <<"f","u","n","d","_","t","e","x","t">>)
  @@ ("funding_text" :> <<"f","u","n","d","i","n","g","_","t","e","x","t">>)
  @@ ("text" :> <<"t","e","x","t">>)
  @@ ("fund_agency" :> <<"f","u","n","d","_","a","g","e","n","c","y">>)
  @@ ("grant_no" :> <<"g","r","a","n","t","_","n","o">>)
  @@ ("grant_number" :> <<"g","r","a","n","t","_","n","u","m","b","e","r">>)
  @@ ("grants" :> <<"g","r","a","n","t","s">>)
  @@ ("grant" :> <<"g","r","a","n","t">>)
  @@ ("grant_agency" :> <<"g","r","a","n","t","_","a","g","e","n","c","y">>)
  @@ ("agency" :> <<"a","g","e","n","c","y">>)
  @@ ("funding_agency" :> <<"f","u","n","d","i","n","g","_","a","g","e","n","c","y">>)
  @@ ("grant_id" :> <<"g","r","a","n","t","_","i","d">>)
  @@ ("keywords" :> <<"k","e","y","w","o","r","d","s">>)
  @@ ("keyword" :> <<"k","e","y","w","o","r","d">>)
  @@ ("keywords_plus" :> <<"k","e","y","w","o","r","d","s","_","p","l","u","s">>)
  @@ ("category_info" :> <<"c","a","t","e","g","o","r","y","_","i","n","f","o">>)
  @@ ("subjects" :> <<"s","u","b","j","e","c","t","s">>)
  @@ ("subject" :> <<"s","u","b","j","e","c","t">>)
  @@ ("ascatype" :> <<"a","s","c","a","t","y","p","e">>)
  @@ ("@ascatype" :> <<"@","a","s","c","a","t","y","p","e">>)
  @@ ("UID" :> <<"U","I","D">>)
  @@ ("uid" :> <<"u","i","d">>)
  @@ ("p" :> <<"p">>)

RECURSIVE digits(_)
\* str(n) of n >= 0
digits(n) ==
  LET d == <<"0","1","2","3","4","5","6","7","8","9">>[(n % 10) + 1] IN
  IF n < 10 THEN <<d>> ELSE Append(digits(n \div 10), d)

RECURSIVE py_repr(_)
\* repr(v)
py_repr(v) ==
  CASE v.t = "null" -> <<"N","o","n","e">>
    [] v.t = "str" -> <<"'">> \o v.s \o <<"'">>
    [] v.t = "num" -> digits(v.n)
    [] v.t = "list" ->
         <<"[">> \o join(<<",", " ">>, [i \in DOMAIN v.items |-> py_repr(v.items[i])])
                 \o <<"]">>
    [] v.t = "dict" ->
         <<"{">> \o join(<<",", " ">>,
                         [i \in DOMAIN v.kv |->
                            <<"'">> \o KeyChars[v.kv[i][1]] \o <<"'", ":", " ">>
                              \o py_repr(v.kv[i][2])])
                 \o <<"}">>

\* str(v)
py_str(v) == IF v.t = "str" THEN v.s ELSE py_repr(v)

\* the class [-._;()/:A-Z0-9] under re.I
IsDoiChar(c) ==
  c \in {"-", ".", "_", ";", "(", ")", "/", ":"} \cup DigitChars
        \cup Range(UpperLetters) \cup Range(LowerLetters)

\* \b at index i of text (between text[i-1] and text[i])
WordBoundary(text, i) ==
  (i > 1 /\ i - 1 <= Len(text) /\ IsWordChar(text[i - 1]))
    # (i <= Len(text) /\ IsWordChar(text[i]))

\* DOI_RE = \b10\.\d{4,9}/[-._;()/:A-Z0-9]+\b begun at index i: the index
\* after the match, or 0
DoiMatchAt(text, i) ==
  IF ~(WordBoundary(text, i) /\ LitAt(text, i, <<"1","0",".">>, FALSE)) THEN 0
  ELSE LET ds == {n \in 4..9 :
                    /\ i + 3 + n <= Len(text)
                    /\ \A x \in (i + 3)..(i + 2 + n) : text[x] \in DigitChars
                    /\ text[i + 3 + n] = "/"}
       IN IF ds = {} THEN 0
          ELSE LET n == CHOOSE n \in ds : TRUE
                   b == i + 4 + n
                   es == {e \in (b + 1)..(Len(text) + 1) :
                            /\ \A x \in b..(e - 1) : IsDoiChar(text[x])
                            /\ WordBoundary(text, e)}
               IN IF es = {} THEN 0
                  ELSE CHOOSE e \in es : \A e2 \in es : e2 <= e

\* DOI_RE.search(text): m.group(0), or "" when there is no match
DOI_RE_search(text) ==
  LET starts == {i \in 1..Len(text) : DoiMatchAt(text, i) # 0} IN
  IF starts = {} THEN <<>>
  ELSE LET i == CHOOSE i \in starts : \A j \in starts : i <= j
       IN SubSeq(text, i, DoiMatchAt(text, i) - 1)

\* ------------------------------------------------------------------------
\* fetch_wos_data.py: the field extractors
\* ------------------------------------------------------------------------

str_item == <<"i","t","e","m">>
str_source == <<"s","o","u","r","c","e">>
str_doi == <<"d","o","i">>
str_extended == <<"e","x","t","e","n","d","e","d">>

\* the element a loop returns on: the first of those that pass its test, or
\* Null when the loop runs to its end
FirstOf(items) == IF items = <<>> THEN Null ELSE Head(items)

\* rec.get("static_data", {}) or {} and the blocks under it
static_of(r) == or(get(r, "static_data", EmptyDict), EmptyDict)
summary_of(r) == or(get(static_of(r), "summary", EmptyDict), EmptyDict)
full_md_of(r) == or(get(static_of(r), "fullrecord_metadata", EmptyDict), EmptyDict)

get_unique_id(r) == or(get(r, "UID", EmptyStr), get(r, "uid", EmptyStr))

pick_title(summary, wanted_type) ==
  LET titles_block == or(get(summary, "titles", Null), EmptyDict)
      titles_list == get(titles_block, "title", Null)
  IN IF IsRaise(titles_list) THEN titles_list
     ELSE LET hit == FirstOf(SelectSeq(as_list(titles_list),
                       LAMBDA t : t.t = "dict"
                                  /\ lower(py_str(get(t, "type", EmptyStr)))
                                       = lower(wanted_type)))
          IN IF hit = Null THEN EmptyStr
             ELSE or(or(get(hit, "content", Null), get(hit, "value", Null)), EmptyStr)

get_doi(r) ==
  LET summary == summary_of(r)
      full_md == full_md_of(r)
      blocks == <<get(summary, "identifiers", Null), get(full_md, "identifiers", Null)>>
      ItemsOf(b) == IF b.t = "dict" THEN as_list(get(b, "identifier", Null)) ELSE <<>>
      IsDoi(it) ==
        /\ it.t = "dict"
        /\ lower(py_str(or(or(get(it, "type", Null), get(it, "@type", Null)), EmptyStr)))
             = str_doi
  IN IF IsRaise(summary) THEN summary
     ELSE IF IsRaise(full_md) THEN full_md
     ELSE LET hit == FirstOf(SelectSeq(ItemsOf(blocks[1]) \o ItemsOf(blocks[2]), IsDoi)) IN
          IF hit # Null
            THEN or(or(get(hit, "value", Null), get(hit, "content", Null)), EmptyStr)
            ELSE Str(DOI_RE_search(py_str(r)))

\* " ".join(text.split())
collapse_ws(text) ==
  IF strip(text) = <<>> THEN <<>> ELSE join(<<" ">>, split_ws(strip(text)))

get_abstract(r) ==
  LET full_md == full_md_of(r)
      abstracts == or(get(full_md, "abstracts", EmptyDict), EmptyDict)
      abs_block == get(abstracts, "abstract", Null)
  IN IF IsRaise(abs_block) THEN abs_block
     ELSE LET abs_items == as_list(abs_block)
              text == strip(join(<<" ">>,
                        [i \in DOMAIN abs_items |-> extract_text(abs_items[i])]))
          IN Str(collapse_ws(text))

\* the fund_ack dicts of static_data and of fullrecord_metadata
fund_candidates(r) ==
  SelectSeq(as_list(get(static_of(r), "fund_ack", Null))
              \o as_list(get(full_md_of(r), "fund_ack", Null)),
            LAMBDA fa : fa.t = "dict")

TextsOf(items) == [i \in DOMAIN items |-> extract_text(items[i])]

\* the dicts under fa["grants"]["grant"]
grant_list(fa) ==
  LET grants_block == or(get(fa, "grants", Null), EmptyDict) IN
  SelectSeq(IF grants_block.t = "dict" THEN as_list(get(grants_block, "grant", Null))
            ELSE <<>>,
            LAMBDA g : g.t = "dict")

agencies_of(fa) ==
  TextsOf(as_list(get(fa, "fund_agency", Null)))
    \o [i \in DOMAIN grant_list(fa) |->
          extract_text(or(or(get(grant_list(fa)[i], "grant_agency", Null),
                             get(grant_list(fa)[i], "agency", Null)),
                          get(grant_list(fa)[i], "funding_agency", Null)))]

grants_of(fa) ==
  TextsOf(as_list(or(get(fa, "grant_no", Null), get(fa, "grant_number", Null))))
    \o [i \in DOMAIN grant_list(fa) |->
          extract_text(or(or(get(grant_list(fa)[i], "grant_id", Null),
                             get(grant_list(fa)[i], "grant_number", Null)),
                          get(grant_list(fa)[i], "grant_no", Null)))]

fund_text_of(fa) ==
  extract_text(or(or(get(fa, "fund_text", Null), get(fa, "funding_text", Null)),
                  get(fa, "text", Null)))

\* <<fund_text, agencies, grants>>, or the exception
get_funding(r) ==
  IF IsRaise(static_of(r)) THEN static_of(r)
  ELSE IF IsRaise(full_md_of(r)) THEN full_md_of(r)
  ELSE LET fas == fund_candidates(r)
           texts == NonEmpty([i \in DOMAIN fas |-> fund_text_of(fas[i])])
       IN Tuple(<<
             Str(IF texts = <<>> THEN <<>> ELSE texts[1]),
             Str(join(<<";", " ">>,
                      fetch_dedupe_keep_order(
                        Concat([i \in DOMAIN fas |-> agencies_of(fas[i])])))),
             Str(join(<<";", " ">>,
                      fetch_dedupe_keep_order(
                        Concat([i \in DOMAIN fas |-> grants_of(fas[i])])))) >>)

\* the joined, deduplicated texts of block["keyword"]
keyword_string(block) ==
  Str(join(<<";", " ">>,
           fetch_dedupe_keep_order(TextsOf(as_list(get(block, "keyword", Null))))))

\* <<author_keywords, keywords_plus>>, or the exception
get_keywords(r) ==
  LET full_md == full_md_of(r)
      item == or(get(static_of(r), "item", EmptyDict), EmptyDict)
      kw_block == or(get(full_md, "keywords", EmptyDict), EmptyDict)
      kp_block == or(get(item, "keywords_plus", EmptyDict), EmptyDict)
  IN IF IsRaise(get(kw_block, "keyword", Null)) THEN get(kw_block, "keyword", Null)
     ELSE IF IsRaise(get(kp_block, "keyword", Null)) THEN get(kp_block, "keyword", Null)
     ELSE Tuple(<<keyword_string(kw_block), keyword_string(kp_block)>>)

\* (s.get("ascatype") or s.get("@ascatype") or "")
asca_of(sub) == or(or(get(sub, "ascatype", Null), get(sub, "@ascatype", Null)), EmptyStr)

\* the text of one subject entry
subject_text(sub) ==
  IF sub.t = "dict"
    THEN LET txt == extract_text(get(sub, "subject", Null)) IN
         strip(IF txt # <<>> THEN txt ELSE extract_text(sub))
    ELSE extract_text(sub)

TextsOfSubjects(subs) == [i \in DOMAIN subs |-> subject_text(subs[i])]

\* <<traditional, extended>>, or the exception
get_categories(r) ==
  LET full_md == full_md_of(r)
      cat_info == or(get(full_md, "category_info", EmptyDict), EmptyDict)
      subjects_block == or(get(cat_info, "subjects", Null), EmptyDict)
      subject_block == get(subjects_block, "subject", Null)
  IN IF IsRaise(subject_block) THEN subject_block
     ELSE LET subs == as_list(subject_block)
              \* .lower() of a value that is no str
              bad == {i \in DOMAIN subs : subs[i].t = "dict" /\ asca_of(subs[i]).t # "str"}
              IsExt(sub) == sub.t = "dict" /\ lower(asca_of(sub).s) = str_extended
              trad == NonEmpty(TextsOfSubjects(SelectSeq(subs, LAMBDA x : ~IsExt(x))))
              ext == NonEmpty(TextsOfSubjects(SelectSeq(subs, IsExt)))
          IN IF bad # {} THEN Raise("AttributeError")
             ELSE Tuple(<< Str(join(<<";", " ">>, fetch_dedupe_keep_order(trad))),
                           Str(join(<<";", " ">>, fetch_dedupe_keep_order(ext))) >>)

get_author_emails(r) ==
  LET names == get(or(get(summary_of(r), "names", Null), EmptyDict), "name", Null)
      EmailOf(n) == or(or(get(n, "email_addr", Null), get(n, "email", Null)),
                       get(n, "emailAddress", Null))
  IN IF IsRaise(names) THEN names
     ELSE LET with_email == SelectSeq(as_list(names),
                              LAMBDA n : n.t = "dict" /\ truthy(EmailOf(n)))
          IN Str(join(<<";", " ">>,
                      fetch_dedupe_keep_order(
                        [i \in DOMAIN with_email |-> extract_text(EmailOf(with_email[i]))])))

\* "; ".join(n.get("full_name", "") for n in as_list(authors) if ...);
\* TypeError when a full_name is no str
authors_str(summary) ==
  LET authors == get(or(get(summary, "names", Null), EmptyDict), "name", Null) IN
  IF IsRaise(authors) THEN authors
  ELSE LET named == SelectSeq(as_list(authors),
                      LAMBDA n : n.t = "dict" /\ truthy(get(n, "full_name", Null)))
       IN IF \E i \in DOMAIN named : get(named[i], "full_name", EmptyStr).t # "str"
            THEN Raise("TypeError")
            ELSE Str(join(<<";", " ">>,
                          [i \in DOMAIN named |-> get(named[i], "full_name", EmptyStr).s]))

RowFields ==
  <<"UT", "Title", "Journal", "Year", "DOI", "Authors", "AuthorEmails", "Abstract",
    "FundingText", "FundingAgencies", "GrantNumbers", "AuthorKeywords",
    "KeywordsPlus", "WoSCategoriesTraditional", "WoSCategoriesExtended">>

\* the row, or the first exception raised on the way
make_summary_row(r) ==
  LET summary == summary_of(r)
      pub_info == or(get(summary, "pub_info", EmptyDict), EmptyDict)
      ut == get_unique_id(r)
      title == pick_title(summary, str_item)
      journal == pick_title(summary, str_source)
      year == get(pub_info, "pubyear", EmptyStr)
      authors == authors_str(summary)
      doi == get_doi(r)
      abstract == get_abstract(r)
      funding == get_funding(r)
      keywords == get_keywords(r)
      categories == get_categories(r)
      emails == get_author_emails(r)
      steps == <<summary, pub_info, ut, title, journal, year, authors, doi, abstract,
                 funding, keywords, categories, emails>>
      raised == {i \in DOMAIN steps : IsRaise(steps[i])}
  IN IF raised # {} THEN steps[CHOOSE i \in raised : \A j \in raised : i <= j]
     ELSE [t |-> "row",
           UT |-> ut, Title |-> title, Journal |-> journal, Year |-> year,
           DOI |-> doi, Authors |-> authors, AuthorEmails |-> emails,
           Abstract |-> abstract, FundingText |-> funding.v[1],
           FundingAgencies |-> funding.v[2], GrantNumbers |-> funding.v[3],
           AuthorKeywords |-> keywords.v[1], KeywordsPlus |-> keywords.v[2],
           WoSCategoriesTraditional |-> categories.v[1],
           WoSCategoriesExtended |-> categories.v[2]]

\* summary_rows.append(make_summary_row(rec)) for one record; an exception
\* ends the run
MakeSummaryRow ==
  /\ fpc = "have_rec"
  /\ UNCHANGED filter_vars
  /\ summary_row' = make_summary_row(rec)
  /\ fpc' = IF IsRaise(make_summary_row(rec)) THEN "raised" ELSE "row_done"
  /\ UNCHANGED <<rec, discover_vars, retry_vars, extract_vars>>

\* ------------------------------------------------------------------------
\* Raw records (NormSpec)
\* ------------------------------------------------------------------------

MaxKeywords == 3

Alpha == <<"A","l","p","h","a">>
alpha == <<"a","l","p","h","a">>
Beta == <<"B","e","t","a">>
txt_x == <<"x">>

\* values met where the program expects something else
Junk ==
  { Null, Str(txt_x), EmptyStr, Num(7), Num(0), List(<<>>), List(<<Str(txt_x)>>),
    EmptyDict }

Slots ==
  { "UID", "static_data", "summary", "titles", "title", "title_content", "names",
    "name", "full_name", "email_addr", "pub_info", "pubyear", "identifiers",
    "identifier", "doi_value", "fullrecord_metadata", "abstracts", "abstract",
    "fund_ack", "fund_agency", "grants", "keywords", "keyword", "item",
    "keywords_plus", "category_info", "subjects", "subject", "ascatype", "none" }

\* a full record as the API sends it, with the value at one slot replaced
RecordWith(slot, junk) ==
  LET V(name, normal) == IF slot = name THEN junk ELSE normal IN
  Dict(<<
    <<"UID", V("UID", Str(<<"W","O","S",":","1">>))>>,
    <<"static_data", V("static_data", Dict(<<
      <<"summary", V("summary", Dict(<<
        <<"titles", V("titles", Dict(<<
          <<"title", V("title", List(<<
            Dict(<< <<"type", Str(str_source)>>, <<"content", Str(<<"J"," ","M","o","d">>)>> >>),
            Dict(<< <<"type", Str(str_item)>>,
                    <<"content", V("title_content", Str(<<"A"," ","S","C","o","R","e"," ","s","t","u","d","y">>))>> >>)
          >>))>> >>))>>,
        <<"names", V("names", Dict(<<
          <<"name", V("name", List(<<
            Dict(<< <<"full_name", V("full_name", Str(<<"W","e","i",","," ","L","i">>))>>,
                    <<"email_addr", V("email_addr", Str(<<"l","i","@","x",".","s","e">>))>> >>)
          >>))>> >>))>>,
        <<"pub_info", V("pub_info", Dict(<<
          <<"pubyear", V("pubyear", Str(<<"2","0","2","5">>))>> >>))>>,
        <<"identifiers", V("identifiers", Dict(<<
          <<"identifier", V("identifier", List(<<
            Dict(<< <<"type", Str(<<"i","s","s","n">>)>>, <<"value", Str(<<"1","2","3","4","-","5","6","7","8">>)>> >>),
            Dict(<< <<"type", Str(str_doi)>>,
                    <<"value", V("doi_value", Str(<<"1","0",".","1","0","0","0","/","a","b",".","1">>))>> >>)
          >>))>> >>))>>
      >>))>>,
      <<"fullrecord_metadata", V("fullrecord_metadata", Dict(<<
        <<"abstracts", V("abstracts", Dict(<<
          <<"abstract", V("abstract", Dict(<<
            <<"abstract_text", Dict(<< <<"p", List(<<Str(<<"O","n","e"," "," ","t","w","o",".">>),
                                                   Str(<<" ","S","e","e"," ","1","0",".","1","2","3","4","/","X","y","-","9","."," ">>)>>)>> >>)>>
          >>))>> >>))>>,
        <<"fund_ack", V("fund_ack", Dict(<<
          <<"fund_text", Dict(<< <<"p", Str(<<"G","r","a","n","t"," ","t","o"," ","L","i"," ","W","e","i">>)>> >>)>>,
          <<"fund_agency", V("fund_agency", List(<<Str(Alpha), Str(alpha)>>))>>,
          <<"grants", V("grants", Dict(<<
            <<"grant", List(<<
              Dict(<< <<"grant_agency", Str(Beta)>>,
                      <<"grant_id", Str(<<"G","-","1">>)>> >>) >>)>> >>))>>
        >>))>>,
        <<"keywords", V("keywords", Dict(<<
          <<"keyword", V("keyword", List(<<Str(Alpha), Str(Beta)>>))>> >>))>>,
        <<"category_info", V("category_info", Dict(<<
          <<"subjects", V("subjects", Dict(<<
            <<"subject", V("subject", List(<<
              Dict(<< <<"ascatype", V("ascatype", Str(<<"t","r","a","d","i","t","i","o","n","a","l">>))>>,
                      <<"content", Str(Alpha)>> >>),
              Dict(<< <<"ascatype", Str(<<"E","x","t","e","n","d","e","d">>)>>,
                      <<"content", Str(Beta)>> >>)
            >>))>> >>))>> >>))>>
      >>))>>,
      <<"item", V("item", Dict(<<
        <<"keywords_plus", V("keywords_plus", Dict(<<
          <<"keyword", Str(Beta)>> >>))>> >>))>>
    >>))>>
  >>)

RECURSIVE SeqsUpTo(_, _)
\* the sequences over S of length at most n
SeqsUpTo(S, n) ==
  IF n = 0 THEN {<<>>}
  ELSE LET shorter == SeqsUpTo(S, n - 1)
       IN shorter \cup {Append(q, x) : q \in shorter, x \in S}

\* keyword lists of at most MaxKeywords strings
KeywordLists ==
  { List([i \in DOMAIN q |-> Str(q[i])]) :
      q \in SeqsUpTo({Alpha, alpha, Beta \o <<" ">>}, MaxKeywords) }

RawRecords ==
  {RecordWith(slot, junk) : slot \in Slots, junk \in Junk}
    \cup {RecordWith("keyword", k) : k \in KeywordLists}

\* the filter is not running
FilterIdle ==
  /\ pc = "idle"
  /\ variant = "script"
  /\ kw = <<>>
  /\ wos = <<>>
  /\ pi_file = NoPIFile
  /\ include_terms = <<>>
  /\ exclude_terms = <<>>
  /\ exclude_terms_category = <<>>
  /\ df = <<>>
  /\ df_fulltext = <<>>
  /\ df_category_text = <<>>
  /\ df_include_match = FALSE
  /\ df_exclude_match = FALSE
  /\ df_exclude_category_match = FALSE
  /\ df_matched_term = <<>>
  /\ df_matched_sentence = <<>>
  /\ pi_names = <<>>
  /\ pi_lastnames = <<>>
  /\ df_funding_search_text = <<>>
  /\ df_pi_names_in_funding = <<>>
  /\ df_pi_in_funding = FALSE
  /\ Results = <<>>
  /\ PI_Checked = <<>>

NormInit ==
  /\ fpc = "have_rec"
  /\ rec \in RawRecords
  /\ summary_row = Null
  /\ DiscoverIdle
  /\ RetryIdle
  /\ ExtractIdle
  /\ FilterIdle

NormNext == MakeSummaryRow

NormSpec == NormInit /\ [][NormNext]_vars

\* the value at the end of a chain of keys, or Null
RECURSIVE Path(_, _)
Path(v, keys) ==
  IF keys = <<>> THEN v
  ELSE IF v.t = "dict" /\ has_key(v, Head(keys))
    THEN Path(get(v, Head(keys), Null), Tail(keys))
    ELSE Null

\* one entry per case-insensitively distinct non-blank item: its first
\* spelling, in order of first occurrence
FirstSeenCI(items) ==
  LET st == [i \in DOMAIN items |-> strip(items[i])]
      keep(i) == st[i] # <<>> /\ \A j \in 1..(i - 1) : lower(st[j]) # lower(st[i])
      RECURSIVE pick(_)
      pick(i) == IF i > Len(st) THEN <<>>
                 ELSE (IF keep(i) THEN <<st[i]>> ELSE <<>>) \o pick(i + 1)
  IN pick(1)

\* the author keywords of the record, when they are a list of strings
KeywordStrings(r) ==
  LET k == Path(r, <<"static_data", "fullrecord_metadata", "keywords", "keyword">>)
  IN [i \in DOMAIN k.items |-> k.items[i].s]

HasKeywordStrings(r) ==
  LET k == Path(r, <<"static_data", "fullrecord_metadata", "keywords", "keyword">>)
  IN k.t = "list" /\ \A i \in DOMAIN k.items : k.items[i].t = "str"

\* C5: deduplication keeps one entry per case-insensitively distinct
\* non-blank item, its first spelling, in order of first occurrence; here
\* for the author keywords of the Normalizer.
C5_DedupeCaseInsensitive ==
  (fpc = "row_done" /\ HasKeywordStrings(rec)) =>
    summary_row.AuthorKeywords = Str(join(<<";", " ">>, FirstSeenCI(KeywordStrings(rec))))

\* C6: make_summary_row raises no exception, whatever the shape of the
\* raw record.
C6_NormalizerNeverFails == fpc # "raised"

\* C7: every field of a returned row is a string.
C7_EveryFieldIsString ==
  fpc = "row_done" =>
    \A i \in DOMAIN RowFields : summary_row[RowFields[i]].t = "str"

\* ------------------------------------------------------------------------
\* fetch_wos_data.py: record discovery
\* ------------------------------------------------------------------------

EmptyList == List(<<>>)

\* isinstance(v, list) and v and all(isinstance(x, dict) for x in v)
IsRecordList(v) ==
  v.t = "list" /\ v.items # <<>> /\ \A i \in DOMAIN v.items : v.items[i].t = "dict"

\* what walk appends for the value under a "REC" key
rec_candidates(v) ==
  IF v.t = "dict" THEN << <<v>> >>
  ELSE IF IsRecordList(v) THEN <<v.items>>
  ELSE <<>>

\* what walk appends for the value under a "records" key
records_candidates(v) ==
  IF IsRecordList(v) THEN <<v.items>>
  ELSE IF v.t = "dict" /\ has_key(v, "REC") THEN rec_candidates(get(v, "REC", Null))
  ELSE <<>>

RECURSIVE walk(_), walk_each(_)
\* the candidates walk(obj) appends, in the order it appends them
walk(obj) ==
  IF obj.t = "dict"
    THEN (IF has_key(obj, "REC") THEN rec_candidates(get(obj, "REC", Null)) ELSE <<>>)
         \o (IF has_key(obj, "records")
               THEN records_candidates(get(obj, "records", Null)) ELSE <<>>)
         \o walk_each([i \in DOMAIN obj.kv |-> obj.kv[i][2]])
  ELSE IF obj.t = "list" THEN walk_each(obj.items)
  ELSE <<>>

\* for x in values: walk(x)
walk_each(values) ==
  IF values = <<>> THEN <<>> ELSE walk(Head(values)) \o walk_each(Tail(values))

\* the try block: the list it returns, or Null when control leaves it
\* without a return (an exception, or a value that is no dict and no list)
direct_path(d) ==
  LET r == get(get(get(d, "Data", EmptyDict), "Records", EmptyDict), "records", EmptyDict)
  IN IF IsRaise(r) THEN Null
     ELSE IF r.t = "dict"
       THEN LET rc == get(r, "REC", EmptyList) IN
            IF rc.t = "dict" THEN List(<<rc>>)
            ELSE IF rc.t = "list" THEN rc
            ELSE Null
     ELSE IF r.t = "list" THEN r
     ELSE Null

\* max(candidates, key=len): the first of the longest
best_of(candidates) ==
  candidates[CHOOSE i \in DOMAIN candidates :
               /\ \A j \in DOMAIN candidates : Len(candidates[j]) <= Len(candidates[i])
               /\ \A j \in 1..(i - 1) : Len(candidates[j]) < Len(candidates[i])]

\* "UID" in x or "uid" in x
has_uid(x) == x.t = "dict" /\ (has_key(x, "UID") \/ has_key(x, "uid"))

\* the part of extract_records_any after the try block
walk_tier(d) ==
  LET candidates == walk(d) IN
  IF candidates = <<>> THEN EmptyList
  ELSE LET best == best_of(candidates)
           with_uid == SelectSeq(best, has_uid)
       IN IF with_uid # <<>> THEN List(with_uid) ELSE List(best)

extract_records_any(d) ==
  IF direct_path(d) # Null THEN direct_path(d) ELSE walk_tier(d)

\* recs = extract_records_any(data) for one page
ExtractRecordsAny ==
  /\ fpc = "have_data"
  /\ recs' = extract_records_any(data)
  /\ tier' = IF direct_path(data) # Null THEN "direct" ELSE "walk"
  /\ fpc' = "recs_done"
  /\ UNCHANGED <<data, rec, summary_row, retry_vars, extract_vars>>
  /\ UNCHANGED filter_vars

\* ------------------------------------------------------------------------
\* Response envelopes (DiscoverSpec)
\* ------------------------------------------------------------------------

MaxRecs == 2

rec_A == Dict(<< <<"UID", Str(<<"W","O","S",":","1">>)>> >>)
rec_B == Dict(<< <<"uid", Str(<<"W","O","S",":","2">>)>> >>)
rec_N == Dict(<< <<"title", Str(txt_x)>> >>)

\* lists of at most MaxRecs records, with and without a UID
RecLists == SeqsUpTo({rec_A, rec_N}, MaxRecs)

\* what the envelope holds under "Data": nothing, the documented path with
\* a list or a single record under REC, a list under "records", and shapes
\* that end the path early
DataParts ==
  { <<>> }
  \cup { << <<"Data", Dict(<< <<"Records",
              Dict(<< <<"records", Dict(<< <<"REC", List(l)>> >>)>> >>)>> >>)>> >> :
           l \in RecLists }
  \cup { << <<"Data", Dict(<< <<"Records",
              Dict(<< <<"records", v>> >>)>> >>)>> >> :
           v \in {Dict(<< <<"REC", rec_A>> >>), Dict(<< <<"REC", Null>> >>),
                  Dict(<< <<"REC", List(<<rec_B, rec_N>>)>> >>),
                  List(<<rec_B, rec_N>>), EmptyList, EmptyDict, Null, Str(txt_x)} }
  \cup { << <<"Data", v>> >> :
           v \in {Null, EmptyDict, Str(txt_x), List(<<rec_A>>),
                  Dict(<< <<"Records", Null>> >>)} }

\* a container of records elsewhere in the envelope, under key k
Elsewhere(k) ==
  { <<>> }
  \cup { << <<k, Dict(<< <<"REC", List(l)>> >>)>> >> : l \in RecLists }
  \cup { << <<k, List(<<Dict(<< <<"records", List(l)>> >>)>>)>> >> : l \in RecLists }

Envelopes ==
  { Dict(a \o d \o b) :
      a \in Elsewhere("QueryResult"), d \in DataParts, b \in Elsewhere("Links") }

DiscoverInit ==
  /\ fpc = "have_data"
  /\ data \in Envelopes
  /\ recs = Null
  /\ tier = "none"
  /\ rec = Null
  /\ summary_row = Null
  /\ RetryIdle
  /\ ExtractIdle
  /\ FilterIdle

DiscoverNext == ExtractRecordsAny

DiscoverSpec == DiscoverInit /\ [][DiscoverNext]_vars

\* the records the envelope holds at Data -> Records -> records (-> REC)
DirectRecords(d) ==
  LET r == Path(d, <<"Data", "Records", "records">>) IN
  IF r.t = "list" THEN r.items
  ELSE IF r.t = "dict" /\ has_key(r, "REC")
    THEN LET rc == get(r, "REC", Null) IN
         IF rc.t = "dict" THEN <<rc>>
         ELSE IF rc.t = "list" THEN rc.items
         ELSE <<>>
  ELSE <<>>

\* C11: when the direct path is missing or holds no record,
\* extract_records_any returns what the walk over the whole envelope finds,
\* and an empty list only if the walk finds no candidate.
C11_FallsBackToWalk ==
  (fpc = "recs_done" /\ DirectRecords(data) = <<>>) =>
    /\ recs = walk_tier(data)
    /\ recs = EmptyList => walk(data) = <<>>

\* the longest candidate lists of the walk
Longest(candidates) ==
  {c \in Range(candidates) : \A c2 \in Range(candidates) : Len(c2) <= Len(c)}

\* every entry of the list carries a UID / uid field
CarriesUid(c) == \A i \in DOMAIN c : has_uid(c[i])

\* C12: in the walk tier the returned list is a longest candidate list, and
\* one whose entries carry a UID when a longest candidate of that kind
\* exists, whatever the order of the candidates.
C12_LongestUidPreferred ==
  (fpc = "recs_done" /\ tier = "walk" /\ walk(data) # <<>>) =>
    /\ recs.items \in Longest(walk(data))
    /\ (\E c \in Longest(walk(data)) : CarriesUid(c)) => CarriesUid(recs.items)

\* ------------------------------------------------------------------------
\* fetch_wos_data.py: get_with_retry
\*
\* One action is one pass of the `while True` loop: the request, the
\* response the server chose, and the branch the code takes on its status.
\* ------------------------------------------------------------------------

Min(a, b) == IF a <= b THEN a ELSE b

\* wait_s after a 429, without the cap of 60
rate_limit_wait_uncapped(n) == 5 * (2 ^ (n - 1))

\* wait_s = min(5 * (2 ** (tries - 1)), 60)
rate_limit_wait(n) == Min(5 * (2 ^ (n - 1)), 60)

\* wait_s = min(2 * tries, 20)
server_error_wait(n) == Min(2 * n, 20)

\* the status codes a server sends; HTTP defines the classes 1xx to 5xx
StatusCodes == {200, 399, 400, 404, 429, 500, 599}

IsServerError(code) == 500 <= code /\ code < 600

\* resp.status_code == 429
RateLimited ==
  /\ fpc = "request"
  /\ status_code' = 429
  /\ tries' = tries + 1
  /\ responses' = Append(responses, 429)
  /\ wait_s' = rate_limit_wait(tries')
  /\ fpc' = IF tries' >= max_tries THEN "http_error" ELSE "request"
  /\ UNCHANGED <<max_tries, rec, summary_row, discover_vars, extract_vars>>
  /\ UNCHANGED filter_vars

\* 500 <= resp.status_code < 600
ServerError ==
  /\ fpc = "request"
  /\ \E code \in {c \in StatusCodes : IsServerError(c)} :
       /\ status_code' = code
       /\ responses' = Append(responses, code)
  /\ tries' = tries + 1
  /\ wait_s' = server_error_wait(tries')
  /\ fpc' = IF tries' >= max_tries THEN "http_error" ELSE "request"
  /\ UNCHANGED <<max_tries, rec, summary_row, discover_vars, extract_vars>>
  /\ UNCHANGED filter_vars

\* resp.status_code >= 400: raise_for_status() raises
ClientError ==
  /\ fpc = "request"
  /\ \E code \in {c \in StatusCodes : c >= 400 /\ c # 429 /\ ~IsServerError(c)} :
       /\ status_code' = code
       /\ responses' = Append(responses, code)
  /\ tries' = tries + 1
  /\ fpc' = "http_error"
  /\ UNCHANGED <<max_tries, wait_s, rec, summary_row, discover_vars, extract_vars>>
  /\ UNCHANGED filter_vars

\* return resp
ReturnResponse ==
  /\ fpc = "request"
  /\ \E code \in {c \in StatusCodes : c < 400} :
       /\ status_code' = code
       /\ responses' = Append(responses, code)
  /\ tries' = tries + 1
  /\ fpc' = "returned"
  /\ UNCHANGED <<max_tries, wait_s, rec, summary_row, discover_vars, extract_vars>>
  /\ UNCHANGED filter_vars

\* ------------------------------------------------------------------------
\* Server behaviours (RetrySpec)
\* ------------------------------------------------------------------------

\* the largest max_tries tried; main calls get_with_retry with the default, 8
MaxTries == 8

RetryInit ==
  /\ fpc = "request"
  /\ max_tries \in 1..MaxTries
  /\ tries = 0
  /\ status_code = 0
  /\ wait_s = 0
  /\ responses = <<>>
  /\ rec = Null
  /\ summary_row = Null
  /\ DiscoverIdle
  /\ ExtractIdle
  /\ FilterIdle

RetryNext == RateLimited \/ ServerError \/ ClientError \/ ReturnResponse

RetrySpec == RetryInit /\ [][RetryNext]_vars

\* the response asks for a retry
Retryable(code) == code = 429 \/ IsServerError(code)

\* C14: get_with_retry issues at most max_tries requests; it returns the
\* first response below 400 at once, raises at once on a 4xx other than
\* 429, raises after exactly max_tries requests when every response was a
\* 429 or a 5xx, and sleeps at most 60 s after a 429 and 20 s after a 5xx.
C14_RetryBounded ==
  fpc \in {"request", "returned", "http_error"} =>
    /\ Len(responses) = tries
    /\ tries <= max_tries
    /\ \A i \in 1..(Len(responses) - 1) : Retryable(responses[i])
    /\ fpc = "request" =>
         tries < max_tries /\ \A i \in DOMAIN responses : Retryable(responses[i])
    /\ fpc = "returned" <=> (responses # <<>> /\ responses[Len(responses)] < 400)
    /\ (responses # <<>> /\ ~Retryable(responses[Len(responses)])
          /\ responses[Len(responses)] >= 400) => fpc = "http_error"
    /\ (fpc = "http_error" /\ Retryable(responses[Len(responses)])) => tries = max_tries
    /\ status_code = 429 => wait_s <= 60
    /\ IsServerError(status_code) => wait_s <= 20

\* C14 witness: the default max_tries, every response a 429 or a 5xx, the
\* wait after the last 429 cut to 60 s, an error after the eighth request
C14_Witness ==
  /\ fpc = "http_error"
  /\ max_tries = 8
  /\ tries = 8
  /\ status_code = 429
  /\ wait_s = 60
  /\ \E i \in DOMAIN responses : IsServerError(responses[i])

\* ------------------------------------------------------------------------
\* fetch_wos_data.py: extract_text, call by call
\*
\* The objects live in `heap`; the items of a list and the values of a dict
\* are the ids of other objects, so that an object can hold itself.  A
\* frame of `stack` is one call of extract_text:
\*   id     the object it was called on
\*   phase  "call"   just entered
\*          "p"      in `return extract_text(obj["p"])`
\*          "test"   in the `if extract_text(x)` of the generator, at child i
\*          "value"  in the `extract_text(x)` of the generator, at child i
\*   parts  the texts the generator has yielded so far
\* ------------------------------------------------------------------------

NoValue == [t |-> "none"]

Frame(id, phase, i, parts) == [id |-> id, phase |-> phase, i |-> i, parts |-> parts]

Top == stack[Len(stack)]

Pop == SubSeq(stack, 1, Len(stack) - 1)

\* the stack with its innermost frame replaced
WithTop(f) == Pop \o <<f>>

\* the id under key k of a dict of the heap
ref(o, k) == o.kv[CHOOSE i \in DOMAIN o.kv : o.kv[i][1] = k][2]

\* "content" in obj and isinstance(obj["content"], str), and so for "value"
HasStr(o, k) == has_key(o, k) /\ heap[ref(o, k)].t = "str"

\* the objects the generator runs over: the items of a list, the values of
\* a dict
Children(o) ==
  IF o.t = "list" THEN o.items ELSE [i \in DOMAIN o.kv |-> o.kv[i][2]]

\* the child the innermost call is about to call extract_text on: 0 if none
NextChild ==
  LET o == heap[Top.id] IN
  IF Top.phase = "p" THEN ref(o, "p")
  ELSE IF Top.phase \in {"test", "value"} /\ Top.i <= Len(Children(o))
    THEN Children(o)[Top.i]
  ELSE 0

\* the calls that fit on the interpreter's stack
RecursionLimit == 5

\* entry of extract_text(obj): the cases that return at once, and the start
\* of the two generators
ExtractEnter ==
  /\ fpc = "extract"
  /\ stack # <<>>
  /\ Top.phase = "call"
  /\ LET o == heap[Top.id] IN
       IF o.t = "str" THEN stack' = Pop /\ ret' = Str(strip(o.s))
       ELSE IF o.t = "list" THEN
         stack' = WithTop(Frame(Top.id, "test", 1, <<>>)) /\ ret' = NoValue
       ELSE IF o.t = "dict" THEN
         IF has_key(o, "p") THEN
           stack' = WithTop(Frame(Top.id, "p", 0, <<>>)) /\ ret' = NoValue
         ELSE IF HasStr(o, "content") THEN
           stack' = Pop /\ ret' = Str(strip(heap[ref(o, "content")].s))
         ELSE IF HasStr(o, "value") THEN
           stack' = Pop /\ ret' = Str(strip(heap[ref(o, "value")].s))
         ELSE stack' = WithTop(Frame(Top.id, "test", 1, <<>>)) /\ ret' = NoValue
       ELSE stack' = Pop /\ ret' = EmptyStr
  /\ UNCHANGED <<fpc, heap, rec, summary_row, discover_vars, retry_vars>>
  /\ UNCHANGED filter_vars

\* a call of extract_text from inside extract_text
ExtractRecurse ==
  /\ fpc = "extract"
  /\ stack # <<>>
  /\ ret = NoValue
  /\ Top.phase # "call"
  /\ NextChild # 0
  /\ Len(stack) < RecursionLimit
  /\ stack' = Append(stack, Frame(NextChild, "call", 0, <<>>))
  /\ UNCHANGED <<fpc, heap, ret, rec, summary_row, discover_vars, retry_vars>>
  /\ UNCHANGED filter_vars

\* the same call when the stack is full: RecursionError, which nothing
\* catches
ExtractOverflow ==
  /\ fpc = "extract"
  /\ stack # <<>>
  /\ ret = NoValue
  /\ Top.phase # "call"
  /\ NextChild # 0
  /\ Len(stack) >= RecursionLimit
  /\ fpc' = "recursion_error"
  /\ ret' = Raise("RecursionError")
  /\ UNCHANGED <<heap, stack, rec, summary_row, discover_vars, retry_vars>>
  /\ UNCHANGED filter_vars

\* the inner call has returned into the innermost frame
ExtractResume ==
  /\ fpc = "extract"
  /\ stack # <<>>
  /\ ret # NoValue
  /\ \/ /\ Top.phase = "p"
        /\ stack' = Pop
        /\ UNCHANGED ret
     \/ /\ Top.phase = "test"
        /\ stack' = WithTop(IF ret.s # <<>>
                              THEN Frame(Top.id, "value", Top.i, Top.parts)
                              ELSE Frame(Top.id, "test", Top.i + 1, Top.parts))
        /\ ret' = NoValue
     \/ /\ Top.phase = "value"
        /\ stack' = WithTop(Frame(Top.id, "test", Top.i + 1, Append(Top.parts, ret.s)))
        /\ ret' = NoValue
  /\ UNCHANGED <<fpc, heap, rec, summary_row, discover_vars, retry_vars>>
  /\ UNCHANGED filter_vars

\* the generator is exhausted: return " ".join(...).strip()
ExtractJoin ==
  /\ fpc = "extract"
  /\ stack # <<>>
  /\ ret = NoValue
  /\ Top.phase = "test"
  /\ NextChild = 0
  /\ stack' = Pop
  /\ ret' = Str(strip(join(<<" ">>, Top.parts)))
  /\ UNCHANGED <<fpc, heap, rec, summary_row, discover_vars, retry_vars>>
  /\ UNCHANGED filter_vars

\* the outermost call has returned
ExtractDone ==
  /\ fpc = "extract"
  /\ stack = <<>>
  /\ ret # NoValue
  /\ fpc' = "text_done"
  /\ UNCHANGED <<heap, stack, ret, rec, summary_row, discover_vars, retry_vars>>
  /\ UNCHANGED filter_vars

\* ------------------------------------------------------------------------
\* Object graphs (ExtractSpec)
\* ------------------------------------------------------------------------

HeapSize == 3

Ids == 1..HeapSize

\* an object: null, a string, a list of at most two objects, a dict with
\* one of the keys extract_text looks for or another key
Objects ==
  {Null, Str(txt_x), Str(<<" ">>), Num(7), EmptyList}
  \cup {List(<<a>>) : a \in Ids}
  \cup {List(<<a, b>>) : a \in Ids, b \in Ids}
  \cup {Dict(<< <<k, a>> >>) : k \in {"p", "content", "title"}, a \in Ids}

\* extract_text(heap[1]) is called
ExtractInit ==
  /\ fpc = "extract"
  /\ heap \in [Ids -> Objects]
  /\ stack = <<Frame(1, "call", 0, <<>>)>>
  /\ ret = NoValue
  /\ rec = Null
  /\ summary_row = Null
  /\ DiscoverIdle
  /\ RetryIdle
  /\ FilterIdle

ExtractNext ==
  \/ ExtractEnter
  \/ ExtractRecurse
  \/ ExtractOverflow
  \/ ExtractResume
  \/ ExtractJoin
  \/ ExtractDone

ExtractSpec == ExtractInit /\ [][ExtractNext]_vars

\* the objects reached from object a through items and values
RECURSIVE ReachableFrom(_, _)
ReachableFrom(seen, frontier) ==
  IF frontier \subseteq seen THEN seen
  ELSE ReachableFrom(seen \cup frontier,
         UNION {IF heap[a].t \in {"list", "dict"} THEN Range(Children(heap[a])) ELSE {} :
                  a \in frontier})

\* the object given to extract_text holds itself, directly or through
\* other containers
SelfReferential ==
  \E a \in ReachableFrom({}, {1}) :
    heap[a].t \in {"list", "dict"}
      /\ a \in ReachableFrom({}, Range(Children(heap[a])))

\* the model's calls overflow the stack on the self-referential inputs and
\* on no other
OverflowOnSelfReference ==
  fpc # "extract" => (fpc = "recursion_error" <=> SelfReferential)

\* C13: extract_text returns a string on every input, also on a structure
\* that holds itself; no call ends in an exception.
C13_ExtractTextReturns ==
  /\ fpc # "recursion_error"
  /\ fpc = "text_done" => ret.t = "str"

====
